---- MODULE Spec2Model ----
(***************************************************************************)
(* Model of the codec engine of the medical image compressor:              *)
(*   codec/jpeg2000.rs  (transform container, "J2K")                       *)
(*   codec/jpegls.rs    (prediction container, "JPEG-LS")                  *)
(* Byte vectors are sequences of 0..255 (1-based; the source's index i is  *)
(* position i+1).  Fixed-width integer arithmetic is modelled at its width.*)
(***************************************************************************)
EXTENDS Integers, Sequences, FiniteSets, TLC

VARIABLES
    image,       \* the ImageData handed to encode
    config,      \* the CompressionConfig handed to encode
    codec,       \* which Codec implementation is in use: "j2k", "jls" or "raw"
    enc_result,  \* what encode returned
    stream,      \* the bytes handed to decode
    geom,        \* width, height, bits_per_sample, samples_per_pixel handed to decode
    dec_result,  \* what decode returned
    pc,          \* "start", "ready", "failed" or "done"
    pipeline,    \* what compress_image saw and returned
    modality,    \* the Modality handed to validate_for_modality
    validation,  \* what validate_for_modality returned
    sched,       \* the BatchScheduler: num_threads, cancelled, completed
    sjobs,       \* the jobs of the schedule call in progress
    workers,     \* the job each pool thread holds (0: none)
    srun,        \* the schedule call: its position, its results, its history
    dicom,       \* the DicomFile compress_file opens: what open and to_image_data do
    warnings,    \* the warnings of the CompressionResult compress_file returned
    batch,       \* the BatchProcessor call: its position, its files, its flags
    channel,     \* every ProgressEvent sent on the ChannelProgress sender, in order
    receiver     \* the ProgressReceiver: its flag and collect_until_complete

codec_vars == <<image, config, codec, enc_result, stream, geom, dec_result, pc>>

pipeline_vars == <<pipeline>>

validate_vars == <<modality, validation>>

sched_vars == <<sched, sjobs, workers, srun>>

file_vars == <<dicom, warnings>>

batch_vars == <<batch, channel, receiver>>

vars == <<image, config, codec, enc_result, stream, geom, dec_result, pc,
          pipeline, modality, validation, sched, sjobs, workers, srun,
          dicom, warnings, batch, channel, receiver>>

(***************************************************************************)
(* Bounds of the model.                                                    *)
(***************************************************************************)
MaxDim == 2
MaxSamples == 4
MaxBody == 4

(***************************************************************************)
(* Input domains.                                                          *)
(***************************************************************************)
SampleVals8 == {0, 5, 128, 255}
SampleVals16 == {0, 5, 32768, 65535}
BitsVals == {8, 16}
SppVals == {1, 2}
RatioVals == {10, 300}
NearVals == {2, 255}
BodyBytes == {0, 127, 147, 218, 255}

(***************************************************************************)
(* Fixed-width integer helpers.                                            *)
(***************************************************************************)
RECURSIVE pow2(_)
pow2(n) == IF n <= 0 THEN 1 ELSE 2 * pow2(n - 1)

min(a, b) == IF a < b THEN a ELSE b
max(a, b) == IF a > b THEN a ELSE b
clamp(v, lo, hi) == IF v < lo THEN lo ELSE IF v > hi THEN hi ELSE v

\* Rust integer division truncates toward zero.
div_trunc(a, b) == IF a >= 0 THEN a \div b ELSE -((-a) \div b)

wrapping_sub_u8(a, b) == (a - b) % 256
wrapping_add_u8(a, b) == (a + b) % 256
wrapping_sub_u16(a, b) == (a - b) % 65536
wrapping_add_u16(a, b) == (a + b) % 65536

\* `x as i8` of a u8 bit pattern, `x as i16` of a u16 bit pattern.
as_i8(u) == IF (u % 256) >= 128 THEN (u % 256) - 256 ELSE u % 256
as_i16(u) == IF (u % 65536) >= 32768 THEN (u % 65536) - 65536 ELSE u % 65536

fits_i16(v) == v >= -32768 /\ v <= 32767
\* Whether the i32 product e * m leaves the i32 range, for an odd m > 1 (no
\* such m divides 2^31, so the two ends of the range give the same test).
\* Stated by division: the product itself may not fit the checker's integers.
mul_overflows_i32(e, m) ==
    (IF e >= 0 THEN e ELSE -e) > 2147483647 \div m

\* The low 16 bits of e * (512 * k + 1), computed without leaving 32 bits:
\* 512 * a is congruent to 512 * (a mod 128) modulo 65536.
mul_step_low16(e, k) ==
    LET a == e % 65536
    IN  ((((a % 128) * 512) % 65536) * k + a) % 65536

u16_to_be_bytes(v) == << (v \div 256) % 256, v % 256 >>
u32_to_be_bytes(v) ==
    << (v \div 16777216) % 256, (v \div 65536) % 256, (v \div 256) % 256, v % 256 >>
u16_to_le_bytes(v) == << v % 256, (v \div 256) % 256 >>
u16_from_le_bytes(lo, hi) == lo + 256 * hi
u16_from_be_bytes(hi, lo) == 256 * hi + lo

\* data[from..to) in the source's 0-based indexing.
slice(data, from, to) == SubSeq(data, from + 1, to)

RECURSIVE flatten(_)
flatten(ss) == IF ss = <<>> THEN <<>> ELSE Head(ss) \o flatten(Tail(ss))

(***************************************************************************)
(* Result<Vec<u8>>: Ok(bytes), Err(class) or a panic (abort).              *)
(***************************************************************************)
Ok(b) == [tag |-> "Ok", class |-> "", msg |-> "", bytes |-> b]
Err(c, m) == [tag |-> "Err", class |-> c, msg |-> m, bytes |-> <<>>]
Panic(m) == [tag |-> "Panic", class |-> "", msg |-> m, bytes |-> <<>>]
NoResult == [tag |-> "None", class |-> "", msg |-> "", bytes |-> <<>>]

(***************************************************************************)
(* codec/jpeg2000.rs                                                       *)
(***************************************************************************)
calculate_expected_size(img) ==
    LET bytes_per_sample == (img.bits_per_sample + 7) \div 8
    IN  img.width * img.height * img.samples_per_pixel * bytes_per_sample

create_siz_segment(img) ==
    LET components == img.samples_per_pixel
        seg_length == 38 + 3 * components
        ssiz == IF img.is_signed
                THEN 128 + ((img.bits_per_sample - 1) % 128)
                ELSE (img.bits_per_sample - 1) % 256
    IN  <<255, 81>>
        \o u16_to_be_bytes(seg_length % 65536)
        \o <<0, 0>>
        \o u32_to_be_bytes(img.width)
        \o u32_to_be_bytes(img.height)
        \o <<0, 0, 0, 0>> \o <<0, 0, 0, 0>>
        \o u32_to_be_bytes(img.width)
        \o u32_to_be_bytes(img.height)
        \o <<0, 0, 0, 0>> \o <<0, 0, 0, 0>>
        \o u16_to_be_bytes(img.samples_per_pixel)
        \o flatten([i \in 1..components |-> <<ssiz, 1, 1>>])

create_cod_segment(cfg) ==
    LET transform == IF cfg.mode = "Lossless" THEN 1 ELSE 0
    IN  <<255, 82>> \o <<0, 12>> \o <<0>> \o <<0>>
        \o u16_to_be_bytes(cfg.quality_layers % 65536)
        \o <<0>> \o <<5>> \o <<4>> \o <<4>> \o <<0>> \o <<transform>>

create_qcd_segment(cfg) ==
    IF cfg.mode = "Lossless"
    THEN <<255, 92>> \o <<0, 4>> \o <<34>> \o <<0>>
    ELSE <<255, 92>> \o <<0, 5>> \o <<66>> \o <<0, 136>>

\* lossless_encode_8 with a saturating difference in place of wrapping_sub.
lossless_encode_8_saturating(data) ==
    [i \in 1..Len(data) |->
        IF i = 1 THEN data[1] ELSE max(data[i] - data[i - 1], 0)]

\* 8-bit branch of lossless_encode: first byte verbatim, then wrapping deltas.
lossless_encode_8(data) ==
    [i \in 1..Len(data) |->
        IF i = 1 THEN data[1] ELSE wrapping_sub_u8(data[i], data[i - 1])]

\* 16-bit branch: little-endian samples, a trailing odd byte is dropped.
lossless_encode_16(data) ==
    LET samples == Len(data) \div 2
        sample(i) == u16_from_le_bytes(data[2 * i + 1], data[2 * i + 2])
    IN  flatten([k \in 1..samples |->
            IF k = 1 THEN <<data[1], data[2]>>
            ELSE u16_to_le_bytes(wrapping_sub_u16(sample(k - 1), sample(k - 2)))])

lossless_encode(data, bits_per_sample) ==
    IF bits_per_sample <= 8 THEN lossless_encode_8(data) ELSE lossless_encode_16(data)

\* (target_ratio.log2() * 0.5) as u8 : the float-to-int cast truncates and
\* saturates, so ratios below 1 give 0.  Ratios are modelled as integers;
\* Option<f32> is <<>> for None and <<r>> for Some(r).
RECURSIVE half_log2(_)
half_log2(ratio) == IF ratio < 4 THEN 0 ELSE 1 + half_log2(ratio \div 4)

half_log2_as_u8(ratio) == min(half_log2(ratio), 255)

lossy_encode(data, bits_per_sample, target_ratio) ==
    LET bits_minus_1 == IF bits_per_sample % 256 = 0 THEN 255
                        ELSE (bits_per_sample % 256) - 1
        quant_bits == min(half_log2_as_u8(target_ratio), bits_minus_1)
        shift == quant_bits
    IN  IF bits_per_sample <= 8
        THEN <<quant_bits>> \o [i \in 1..Len(data) |-> data[i] \div pow2(min(shift, 7))]
        ELSE <<quant_bits>> \o flatten([k \in 1..(Len(data) \div 2) |->
                u16_to_le_bytes(
                    u16_from_le_bytes(data[2 * k - 1], data[2 * k]) \div pow2(min(shift, 15)))])

compress_tile_data(img, cfg) ==
    IF cfg.mode = "Lossless"
    THEN lossless_encode(img.pixel_data, img.bits_per_sample)
    ELSE LET ratio == IF cfg.target_ratio = <<>> THEN 10 ELSE cfg.target_ratio[1]
         IN  lossy_encode(img.pixel_data, img.bits_per_sample, ratio)

\* `tile_length as u32` is the identity below 2^32.
create_j2k_codestream(img, cfg) ==
    LET tile_length == 10 + Len(img.pixel_data)
    IN  <<255, 79>>
        \o create_siz_segment(img)
        \o create_cod_segment(cfg)
        \o create_qcd_segment(cfg)
        \o <<255, 144>>
        \o u16_to_be_bytes(tile_length % 65536)
        \o <<0, 0>>
        \o u32_to_be_bytes(tile_length)
        \o <<0, 1>>
        \o <<255, 147>>
        \o compress_tile_data(img, cfg)
        \o <<255, 217>>

\* `bits_per_sample as u8 - 1` in lossy_encode underflows when the low byte
\* of bits_per_sample is 0: a panic with overflow checks, 255 without.
lossy_encode_underflows(img, cfg) ==
    cfg.mode # "Lossless" /\ img.bits_per_sample % 256 = 0

encode_j2k(img, cfg, checks) ==
    IF img.width = 0 \/ img.height = 0
    THEN Err("ImageData", "Invalid image dimensions")
    ELSE IF img.pixel_data = <<>>
    THEN Err("ImageData", "Empty pixel data")
    ELSE IF Len(img.pixel_data) < calculate_expected_size(img)
    THEN Err("ImageData", "Pixel data size mismatch")
    ELSE IF lossy_encode_underflows(img, cfg) /\ checks
    THEN Panic("attempt to subtract with overflow")
    ELSE Ok(create_j2k_codestream(img, cfg))

\* 8-bit branch of lossless_decode: running wrapping sum.
RECURSIVE lossless_decode_8(_, _)
lossless_decode_8(data, output) ==
    LET i == Len(output) + 1
    IN  IF i > Len(data) THEN output
        ELSE lossless_decode_8(data,
                Append(output, IF i = 1 THEN data[1]
                               ELSE wrapping_add_u8(output[i - 1], data[i])))

\* 16-bit branch: output holds k little-endian samples after k steps.
RECURSIVE lossless_decode_16(_, _)
lossless_decode_16(data, output) ==
    LET k == (Len(output) \div 2) + 1
    IN  IF Len(data) < 2 \/ k > Len(data) \div 2 THEN output
        ELSE IF k = 1 THEN lossless_decode_16(data, <<data[1], data[2]>>)
        ELSE LET delta == u16_from_le_bytes(data[2 * k - 1], data[2 * k])
                 prev == u16_from_le_bytes(output[2 * k - 3], output[2 * k - 2])
             IN  lossless_decode_16(data,
                    output \o u16_to_le_bytes(wrapping_add_u16(prev, delta)))

lossless_decode(data, bits_per_sample) ==
    IF bits_per_sample <= 8
    THEN lossless_decode_8(data, <<>>)
    ELSE lossless_decode_16(data, <<>>)

lossy_decode(data, bits_per_sample) ==
    IF data = <<>> THEN <<>>
    ELSE LET quant_bits == data[1]
             shift == min(quant_bits, 15)
             rest == Tail(data)
         IN  IF bits_per_sample <= 8
             THEN [i \in 1..Len(rest) |-> (rest[i] * pow2(min(shift, 7))) % 256]
             ELSE flatten([k \in 1..(Len(rest) \div 2) |->
                    u16_to_le_bytes(
                        (u16_from_le_bytes(rest[2 * k - 1], rest[2 * k])
                            * pow2(min(shift, 15))) % 65536)])

\* The scan of decode_j2k for the SOD marker FF 93: the position just after
\* the first marker found at or after `pos`, or len-1 when there is none.
RECURSIVE find_sod(_, _)
find_sod(data, pos) ==
    IF pos >= Len(data) - 1 THEN pos
    ELSE IF data[pos + 1] = 255 /\ data[pos + 2] = 147 THEN pos + 2
    ELSE find_sod(data, pos + 1)

\* The payload slice [pos, end) that decode_j2k hands to the tile decoder.
j2k_payload_bounds(data) ==
    LET pos == find_sod(data, 2)
        end == IF Len(data) >= 2 /\ data[Len(data) - 1] = 255 /\ data[Len(data)] = 217
               THEN Len(data) - 2 ELSE Len(data)
    IN  [pos |-> pos, end |-> end]

\* The size check at the end of decode_j2k only logs a warning.
j2k_verify_size(out, width, height, bits_per_sample, samples_per_pixel) ==
    Ok(out)

\* decode_j2k without its check of the SOC marker.
decode_j2k_no_soc_check(data, width, height, bits_per_sample, samples_per_pixel) ==
    IF Len(data) < 4
    THEN Err("Codec", "Invalid J2K data: too short")
    ELSE LET b == j2k_payload_bounds(data)
         IN  IF b.pos >= b.end
             THEN Err("Codec", "Invalid J2K data: no tile data found")
             ELSE LET compressed == slice(data, b.pos, b.end)
                      out == IF compressed # <<>> /\ compressed[1] < 16
                             THEN lossy_decode(compressed, bits_per_sample)
                             ELSE lossless_decode(compressed, bits_per_sample)
                  IN  j2k_verify_size(out, width, height, bits_per_sample,
                                      samples_per_pixel)

decode_j2k(data, width, height, bits_per_sample, samples_per_pixel) ==
    IF Len(data) < 4
    THEN Err("Codec", "Invalid J2K data: too short")
    ELSE IF data[1] # 255 \/ data[2] # 79
    THEN Err("Codec", "Invalid J2K data: missing SOC marker")
    ELSE LET b == j2k_payload_bounds(data)
         IN  IF b.pos >= b.end
             THEN Err("Codec", "Invalid J2K data: no tile data found")
             ELSE LET compressed == slice(data, b.pos, b.end)
                      out == IF compressed # <<>> /\ compressed[1] < 16
                             THEN lossy_decode(compressed, bits_per_sample)
                             ELSE lossless_decode(compressed, bits_per_sample)
                  IN  j2k_verify_size(out, width, height, bits_per_sample,
                                      samples_per_pixel)

(***************************************************************************)
(* codec/jpegls.rs                                                         *)
(***************************************************************************)
create_sof55_segment(img) ==
    LET length == 8 + 3 * img.samples_per_pixel
    IN  <<255, 247>>
        \o u16_to_be_bytes(length % 65536)
        \o <<img.bits_per_sample % 256>>
        \o u16_to_be_bytes(img.height % 65536)
        \o u16_to_be_bytes(img.width % 65536)
        \o <<img.samples_per_pixel % 256>>
        \o flatten([i \in 1..img.samples_per_pixel |-> <<((i - 1) % 256) + 1, 17, 0>>])

create_lse_segment(near) ==
    <<255, 248>> \o <<0, 13>> \o <<1>> \o <<0, 255>>
        \o <<0, 3>> \o <<0, 7>> \o <<0, 21>> \o <<0, 64>>

create_sos_segment(img, near) ==
    LET length == 6 + 2 * img.samples_per_pixel
    IN  <<255, 218>>
        \o u16_to_be_bytes(length % 65536)
        \o <<img.samples_per_pixel % 256>>
        \o flatten([i \in 1..img.samples_per_pixel |-> <<((i - 1) % 256) + 1, 0>>])
        \o <<near>>
        \o <<IF img.samples_per_pixel > 1 THEN 2 ELSE 0>>
        \o <<0>>

\* Median edge detector on left (a), above (b) and above-left (c).
med_predictor(a, b, c, sample_max) ==
    IF c >= max(a, b) THEN min(a, b)
    ELSE IF c <= min(a, b) THEN max(a, b)
    ELSE clamp(a + b - c, 0, sample_max)

\* Prediction of compress_8bit at 0-based idx, from the reconstructed buffer.
compress_8bit_prediction(reconstructed, idx, width) ==
    LET x == idx % width
        y == idx \div width
    IN  IF x = 0 /\ y = 0 THEN 128
        ELSE IF y = 0 THEN reconstructed[idx]
        ELSE IF x = 0 THEN reconstructed[idx - width + 1]
        ELSE med_predictor(reconstructed[idx], reconstructed[idx - width + 1],
                           reconstructed[idx - width], 255)

\* quantize_error_8bit without the division by the step.
quantize_error_8bit_no_division(error, near) ==
    IF near > 0
    THEN LET e == as_i8(error)
             q == IF e >= 0 THEN e + near ELSE e - near
         IN  q % 256
    ELSE error

\* Near-lossless quantization of the wrapped 8-bit residual.
quantize_error_8bit(error, near) ==
    IF near > 0
    THEN LET e == as_i8(error)
             step == 2 * near + 1
             q == IF e >= 0 THEN div_trunc(e + near, step)
                  ELSE div_trunc(e - near, step)
         IN  q % 256
    ELSE error

\* The encoder's reconstruction without the dequantization of the residual.
reconstruct_error_8bit_no_dequantize(quantized_error, near) ==
    [value |-> quantized_error, overflow |-> FALSE]

\* The encoder's dequantization for its reconstructed buffer; the product
\* is an i16.
reconstruct_error_8bit(quantized_error, near) ==
    IF near > 0
    THEN LET e == as_i8(quantized_error)
             step == 2 * near + 1
         IN  [value |-> (e * step) % 256, overflow |-> ~fits_i16(e * step)]
    ELSE [value |-> quantized_error, overflow |-> FALSE]

RECURSIVE compress_8bit_loop(_, _, _, _, _)
compress_8bit_loop(data, width, near, idx, acc) ==
    IF idx >= (Len(data) \div width) * width THEN acc
    ELSE LET current == data[idx + 1]
             prediction == compress_8bit_prediction(acc.reconstructed, idx, width)
             error == wrapping_sub_u8(current, prediction)
             quantized_error == quantize_error_8bit(error, near)
             deq == reconstruct_error_8bit(quantized_error, near)
         IN  compress_8bit_loop(data, width, near, idx + 1,
                [output |-> Append(acc.output, quantized_error),
                 reconstructed |-> [acc.reconstructed EXCEPT ![idx + 1] =
                                        wrapping_add_u8(prediction, deq.value)],
                 overflow |-> acc.overflow \/ deq.overflow])

compress_8bit(data, width, near) ==
    compress_8bit_loop(data, width, near, 0,
        [output |-> <<>>,
         reconstructed |-> [i \in 1..Len(data) |-> 0],
         overflow |-> FALSE])

\* Prediction of compress_16bit at 0-based sample idx, from the source data.
compress_16bit_prediction(data, idx, width) ==
    LET x == idx % width
        y == idx \div width
        sample(i) == u16_from_le_bytes(data[2 * i + 1], data[2 * i + 2])
    IN  IF x = 0 /\ y = 0 THEN 32768
        ELSE IF y = 0 THEN sample(idx - 1)
        ELSE IF x = 0 THEN sample(idx - width)
        ELSE med_predictor(sample(idx - 1), sample(idx - width),
                           sample(idx - width - 1), 65535)

quantize_error_16bit(error, near) ==
    IF near > 0
    THEN LET n == near * 256
             q == div_trunc(as_i16(error) + n, 2 * n + 1)
         IN  q % 65536
    ELSE error

compress_16bit(data, width, near) ==
    LET samples == Len(data) \div 2
        height == samples \div width
    IN  flatten([k \in 1..(height * width) |->
            LET idx == k - 1
                current == u16_from_le_bytes(data[2 * idx + 1], data[2 * idx + 2])
                prediction == compress_16bit_prediction(data, idx, width)
                error == wrapping_sub_u16(current, prediction)
            IN  u16_to_le_bytes(quantize_error_16bit(error, near))])

compress_data(img, near) ==
    LET bytes_per_sample == (img.bits_per_sample + 7) \div 8
    IN  IF bytes_per_sample = 1
        THEN compress_8bit(img.pixel_data, img.width, near)
        ELSE [output |-> compress_16bit(img.pixel_data, img.width, near),
              overflow |-> FALSE]

\* create_jls_codestream writing the LSE segment in every mode.
create_jls_codestream_lse_always(img, near) ==
    <<255, 216>>
    \o create_sof55_segment(img)
    \o create_lse_segment(near)
    \o create_sos_segment(img, near)
    \o compress_data(img, near).output
    \o <<255, 217>>

create_jls_codestream(img, near) ==
    <<255, 216>>
    \o create_sof55_segment(img)
    \o (IF near > 0 THEN create_lse_segment(near) ELSE <<>>)
    \o create_sos_segment(img, near)
    \o compress_data(img, near).output
    \o <<255, 217>>

\* encode_jls without its check for empty pixel data.
encode_jls_validate_no_empty_check(img) ==
    IF img.width = 0 \/ img.height = 0
    THEN Err("ImageData", "Invalid image dimensions")
    ELSE Ok(<<>>)

\* The validation at the head of encode_jls.
encode_jls_validate(img) ==
    IF img.width = 0 \/ img.height = 0
    THEN Err("ImageData", "Invalid image dimensions")
    ELSE IF img.pixel_data = <<>>
    THEN Err("ImageData", "Empty pixel data")
    ELSE Ok(<<>>)

encode_jls(img, cfg, checks) ==
    LET valid == encode_jls_validate(img)
        near == IF cfg.mode = "NearLossless" THEN cfg.near_lossless_error ELSE 0
    IN  IF valid.tag # "Ok" THEN valid
        ELSE IF compress_data(img, near).overflow /\ checks
        THEN Panic("attempt to multiply with overflow")
        ELSE Ok(create_jls_codestream(img, near))

\* parse_jls_header: scans from pos for the SOS marker FF DA and returns the
\* NEAR byte and the payload start.  data[pos + 2] is read unchecked.
RECURSIVE parse_jls_header_from(_, _)
parse_jls_header_from(data, pos) ==
    IF ~(pos < Len(data) - 1)
    THEN [tag |-> "Err", near |-> 0, data_start |-> 0]
    ELSE IF data[pos + 1] # 255
    THEN parse_jls_header_from(data, pos + 1)
    ELSE LET marker == data[pos + 2]
             p == pos + 2
         IN  CASE marker = 218 ->
                    IF p + 2 > Len(data)
                    THEN [tag |-> "Err", near |-> 0, data_start |-> 0]
                    ELSE LET length == u16_from_be_bytes(data[p + 1], data[p + 2])
                         IN  IF p + length > Len(data)
                             THEN [tag |-> "Err", near |-> 0, data_start |-> 0]
                             ELSE IF p + 2 >= Len(data)
                             THEN [tag |-> "Panic", near |-> 0, data_start |-> 0]
                             ELSE LET num_components == data[p + 3]
                                      near_offset == p + 3 + 2 * num_components
                                      near == IF near_offset < Len(data)
                                              THEN data[near_offset + 1] ELSE 0
                                  IN  [tag |-> "Ok", near |-> near,
                                       data_start |-> p + length]
               [] marker = 217 -> [tag |-> "Err", near |-> 0, data_start |-> 0]
               [] marker = 0 -> parse_jls_header_from(data, p)
               [] OTHER ->
                    IF p + 2 <= Len(data)
                    THEN parse_jls_header_from(data,
                            p + u16_from_be_bytes(data[p + 1], data[p + 2]))
                    ELSE parse_jls_header_from(data, p)

parse_jls_header(data) == parse_jls_header_from(data, 2)

\* A decoder that predicts every pixel but the first from its left neighbour.
decompress_8bit_prediction_left_only(output, idx, width) ==
    IF idx = 0 THEN 128 ELSE output[idx]

\* Prediction of decompress_8bit at 0-based idx, from the output buffer.
decompress_8bit_prediction(output, idx, width) ==
    LET x == idx % width
        y == idx \div width
    IN  IF x = 0 /\ y = 0 THEN 128
        ELSE IF y = 0 THEN output[idx]
        ELSE IF x = 0 THEN output[idx - width + 1]
        ELSE med_predictor(output[idx], output[idx - width + 1],
                           output[idx - width], 255)

\* dequantize_error_8bit with the step 2*near in place of 2*near + 1.
dequantize_error_8bit_even_step(error, near) ==
    IF near > 0
    THEN LET e == as_i8(error)
             step == 2 * near
         IN  [value |-> (e * step) % 256, overflow |-> ~fits_i16(e * step)]
    ELSE [value |-> error, overflow |-> FALSE]

\* The decoder's dequantization; the product is an i16.
dequantize_error_8bit(error, near) ==
    IF near > 0
    THEN LET e == as_i8(error)
             step == 2 * near + 1
         IN  [value |-> (e * step) % 256, overflow |-> ~fits_i16(e * step)]
    ELSE [value |-> error, overflow |-> FALSE]

RECURSIVE decompress_8bit_loop(_, _, _, _, _, _)
decompress_8bit_loop(data, width, height, near, idx, acc) ==
    IF idx >= width * height \/ idx >= Len(data) THEN acc
    ELSE LET error == data[idx + 1]
             prediction == decompress_8bit_prediction(acc.output, idx, width)
             deq == dequantize_error_8bit(error, near)
         IN  decompress_8bit_loop(data, width, height, near, idx + 1,
                [output |-> [acc.output EXCEPT ![idx + 1] =
                                wrapping_add_u8(prediction, deq.value)],
                 overflow |-> acc.overflow \/ deq.overflow])

\* The output buffer decompress_8bit allocates.
decompress_8bit_buffer(width, height) == [i \in 1..(width * height) |-> 0]

decompress_8bit(data, width, height, near) ==
    decompress_8bit_loop(data, width, height, near, 0,
        [output |-> decompress_8bit_buffer(width, height), overflow |-> FALSE])

\* Prediction of decompress_16bit at 0-based sample i, from the output buffer.
decompress_16bit_prediction(output, i, width) ==
    LET x == i % width
        y == i \div width
        sample(j) == u16_from_le_bytes(output[2 * j + 1], output[2 * j + 2])
    IN  IF x = 0 /\ y = 0 THEN 32768
        ELSE IF y = 0 THEN sample(i - 1)
        ELSE IF x = 0 THEN sample(i - width)
        ELSE med_predictor(sample(i - 1), sample(i - width),
                           sample(i - width - 1), 65535)

\* The 16-bit dequantization; the product is an i32.
dequantize_error_16bit(error, near) ==
    IF near > 0
    THEN LET n == near * 256
             e == as_i16(error)
         IN  [value |-> mul_step_low16(e, near),
              overflow |-> mul_overflows_i32(e, 2 * n + 1)]
    ELSE [value |-> error, overflow |-> FALSE]

RECURSIVE decompress_16bit_loop(_, _, _, _, _, _)
decompress_16bit_loop(data, width, height, near, i, acc) ==
    IF i >= width * height \/ i * 2 + 1 >= Len(data) THEN acc
    ELSE LET error == u16_from_le_bytes(data[2 * i + 1], data[2 * i + 2])
             prediction == decompress_16bit_prediction(acc.output, i, width)
             deq == dequantize_error_16bit(error, near)
             value == wrapping_add_u16(prediction, deq.value)
         IN  decompress_16bit_loop(data, width, height, near, i + 1,
                [output |-> [acc.output EXCEPT ![2 * i + 1] = value % 256,
                                               ![2 * i + 2] = (value \div 256) % 256],
                 overflow |-> acc.overflow \/ deq.overflow])

decompress_16bit(data, width, height, near) ==
    decompress_16bit_loop(data, width, height, near, 0,
        [output |-> [i \in 1..(width * height * 2) |-> 0], overflow |-> FALSE])

decode_jls(data, width, height, bits_per_sample, samples_per_pixel, checks) ==
    IF Len(data) < 4
    THEN Err("Codec", "Invalid JPEG-LS data: too short")
    ELSE IF data[1] # 255 \/ data[2] # 216
    THEN Err("Codec", "Invalid JPEG-LS data: missing SOI marker")
    ELSE LET hdr == parse_jls_header(data)
             data_end == IF Len(data) >= 2 /\ data[Len(data) - 1] = 255
                                           /\ data[Len(data)] = 217
                         THEN Len(data) - 2 ELSE Len(data)
         IN  IF hdr.tag = "Err"
             THEN Err("Codec", "Could not find SOS marker in JPEG-LS data")
             ELSE IF hdr.tag = "Panic"
             THEN Panic("index out of bounds")
             ELSE IF hdr.data_start >= data_end
             THEN Err("Codec", "Invalid JPEG-LS data: no image data")
             ELSE LET compressed == slice(data, hdr.data_start, data_end)
                      bytes_per_sample == (bits_per_sample + 7) \div 8
                      out == IF bytes_per_sample = 1
                             THEN decompress_8bit(compressed, width, height, hdr.near)
                             ELSE decompress_16bit(compressed, width, height, hdr.near)
                  IN  IF out.overflow /\ checks
                      THEN Panic("attempt to multiply with overflow")
                      ELSE Ok(out.output)

(***************************************************************************)
(* Inputs.                                                                 *)
(***************************************************************************)
SampleSeqs(vals) == UNION {[1..n -> vals] : n \in 0..MaxSamples}

\* Little-endian pixel bytes of a sequence of samples.
pixel_bytes(bits, samples) ==
    IF bits <= 8 THEN samples
    ELSE flatten([i \in 1..Len(samples) |-> u16_to_le_bytes(samples[i])])

ImagesOf(bits, vals) ==
    {[width |-> w, height |-> h, bits_per_sample |-> bits,
      samples_per_pixel |-> spp, pixel_data |-> pixel_bytes(bits, ss),
      is_signed |-> FALSE] :
        w \in 0..MaxDim, h \in 0..MaxDim, spp \in SppVals, ss \in SampleSeqs(vals)}

Images == ImagesOf(8, SampleVals8) \cup ImagesOf(16, SampleVals16)

\* CompressionConfig::default() with the fields the codecs read.
default_config ==
    [codec |-> "Jpeg2000", mode |-> "Lossless", target_ratio |-> <<>>,
     quality_layers |-> 1, near_lossless_error |-> 0,
     verify_compression |-> TRUE, override_safety_checks |-> FALSE]

Configs ==
    {default_config}
    \cup {[default_config EXCEPT !.mode = "Lossy", !.target_ratio = <<r>>] :
            r \in RatioVals}
    \cup {[default_config EXCEPT !.mode = "NearLossless", !.near_lossless_error = n] :
            n \in NearVals}

NoImage ==
    [width |-> 0, height |-> 0, bits_per_sample |-> 8, samples_per_pixel |-> 1,
     pixel_data |-> <<>>, is_signed |-> FALSE]

\* The parts of the state a specification does not use keep these values.
NoPipeline == [can_encode |-> FALSE, result |-> NoResult]

PipelineIdle == pipeline = NoPipeline

ValidateIdle == modality = "Other" /\ validation = NoResult

NoScheduler == [num_threads |-> 1, cancelled |-> FALSE, completed |-> 0]

NoRun ==
    [pc |-> "idle", runs |-> 0, with_progress |-> FALSE, start_completed |-> 0,
     cancelled_at_start |-> FALSE, cancel_in_run |-> FALSE, reset_in_run |-> FALSE,
     results |-> <<>>, completed_at_return |-> 0, progress |-> <<>>]

SchedIdle == sched = NoScheduler /\ sjobs = <<>> /\ workers = <<>> /\ srun = NoRun

NoDicom == [open_ok |-> TRUE, is_compressed |-> FALSE, image_ok |-> TRUE]

FileIdle == dicom = NoDicom /\ warnings = <<>>

NoBatch == [pc |-> "idle", max_parallel |-> 1, cancelled |-> FALSE, files |-> <<>>]

NoReceiver == [cancelled |-> FALSE, taken |-> 0, returned |-> FALSE]

BatchIdle == batch = NoBatch /\ channel = <<>> /\ receiver = NoReceiver

NoGeom == [width |-> 0, height |-> 0, bits_per_sample |-> 8, samples_per_pixel |-> 1]

geometry_of(img) ==
    [width |-> img.width, height |-> img.height,
     bits_per_sample |-> img.bits_per_sample,
     samples_per_pixel |-> img.samples_per_pixel]

Geoms ==
    {[width |-> w, height |-> h, bits_per_sample |-> b, samples_per_pixel |-> spp] :
        w \in 1..MaxDim, h \in 1..MaxDim, b \in BitsVals, spp \in SppVals}

BodySeqs == UNION {[1..n -> BodyBytes] : n \in 0..MaxBody}

\* Byte streams handed to decode that no encoder produced.
RawStreams ==
    {pre \o body \o post :
        pre \in {<<>>, <<255, 79>>, <<255, 216>>},
        body \in BodySeqs,
        post \in {<<>>, <<255, 217>>}}

(***************************************************************************)
(* The state machine: one call of encode, then decode of what it returned  *)
(* with the image's geometry (Spec); or decode of a received stream        *)
(* (SpecDecode).                                                           *)
(***************************************************************************)
Init ==
    /\ image \in Images
    /\ config \in Configs
    /\ codec = "none"
    /\ enc_result = NoResult
    /\ stream = <<>>
    /\ geom = NoGeom
    /\ dec_result = NoResult
    /\ pc = "start"
    /\ PipelineIdle /\ ValidateIdle /\ SchedIdle /\ FileIdle /\ BatchIdle

AfterEncode(r) ==
    /\ enc_result' = r
    /\ stream' = r.bytes
    /\ geom' = geometry_of(image)
    /\ pc' = IF r.tag = "Ok" THEN "ready" ELSE "failed"
    /\ UNCHANGED <<image, config, dec_result>>
    /\ UNCHANGED <<pipeline_vars, validate_vars, sched_vars, file_vars, batch_vars>>

Jpeg2000Codec_encode ==
    /\ pc = "start"
    /\ codec' = "j2k"
    /\ \E checks \in BOOLEAN : AfterEncode(encode_j2k(image, config, checks))

JpegLsCodec_encode ==
    /\ pc = "start"
    /\ codec' = "jls"
    /\ \E checks \in BOOLEAN : AfterEncode(encode_jls(image, config, checks))

Jpeg2000Codec_decode ==
    /\ pc = "ready"
    /\ codec \in {"j2k", "none"}
    /\ codec' = "j2k"
    /\ dec_result' = decode_j2k(stream, geom.width, geom.height,
                                geom.bits_per_sample, geom.samples_per_pixel)
    /\ pc' = "done"
    /\ UNCHANGED <<image, config, enc_result, stream, geom>>
    /\ UNCHANGED <<pipeline_vars, validate_vars, sched_vars, file_vars, batch_vars>>

JpegLsCodec_decode ==
    /\ pc = "ready"
    /\ codec \in {"jls", "none"}
    /\ codec' = "jls"
    /\ \E checks \in BOOLEAN :
        dec_result' = decode_jls(stream, geom.width, geom.height,
                                 geom.bits_per_sample, geom.samples_per_pixel, checks)
    /\ pc' = "done"
    /\ UNCHANGED <<image, config, enc_result, stream, geom>>
    /\ UNCHANGED <<pipeline_vars, validate_vars, sched_vars, file_vars, batch_vars>>

Next ==
    \/ Jpeg2000Codec_encode
    \/ JpegLsCodec_encode
    \/ Jpeg2000Codec_decode
    \/ JpegLsCodec_decode

Spec == Init /\ [][Next]_vars

InitDecode ==
    /\ image = NoImage
    /\ config = default_config
    /\ codec = "none"
    /\ enc_result = NoResult
    /\ stream \in RawStreams
    /\ geom \in Geoms
    /\ dec_result = NoResult
    /\ pc = "ready"
    /\ PipelineIdle /\ ValidateIdle /\ SchedIdle /\ FileIdle /\ BatchIdle

NextDecode ==
    \/ Jpeg2000Codec_decode
    \/ JpegLsCodec_decode

SpecDecode == InitDecode /\ [][NextDecode]_vars

TypeOK ==
    /\ pc \in {"start", "ready", "failed", "done"}
    /\ codec \in {"none", "j2k", "jls"}
    /\ enc_result.tag \in {"None", "Ok", "Err", "Panic"}
    /\ dec_result.tag \in {"None", "Ok", "Err", "Panic"}
    /\ \A i \in 1..Len(stream) : stream[i] \in 0..255
    /\ \A i \in 1..Len(dec_result.bytes) : dec_result.bytes[i] \in 0..255

(***************************************************************************)
(* Encode, then decode, of well-formed images of every bit depth under     *)
(* degenerate lossy and near-lossless parameters (SpecTotal).              *)
(***************************************************************************)
TotalBitsVals == {1, 7, 8, 9, 12, 16}
TotalNearVals == {0, 1, 2, 63, 126, 127, 128, 255}
\* Target ratios: 0 stands for every ratio below 1 (the float-to-u8 cast of
\* a negative logarithm saturates to 0), 1073741824 for a very large one.
TotalRatioVals == {0, 1, 10, 300, 1073741824}

\* Well-formed images: the pixel data has exactly the length the geometry
\* requires.
TotalGeoms ==
    {g \in (1..MaxDim) \X (1..MaxDim) \X SppVals : g[1] * g[2] * g[3] <= MaxSamples}

TotalImagesOf(bits, vals) ==
    UNION {
        {[width |-> g[1], height |-> g[2], bits_per_sample |-> b,
          samples_per_pixel |-> g[3],
          pixel_data |-> pixel_bytes(b, ss), is_signed |-> FALSE] :
            b \in bits, ss \in [1..(g[1] * g[2] * g[3]) -> vals]} :
        g \in TotalGeoms}

TotalImages ==
    TotalImagesOf({b \in TotalBitsVals : b <= 8}, SampleVals8)
    \cup TotalImagesOf({b \in TotalBitsVals : b > 8}, SampleVals16)

TotalConfigs ==
    {[default_config EXCEPT !.mode = "Lossy"]}
    \cup {[default_config EXCEPT !.mode = "Lossy", !.target_ratio = <<r>>] :
            r \in TotalRatioVals}
    \cup {[default_config EXCEPT !.mode = "NearLossless", !.near_lossless_error = n] :
            n \in TotalNearVals}

InitTotal ==
    /\ image \in TotalImages
    /\ config \in TotalConfigs
    /\ codec = "none"
    /\ enc_result = NoResult
    /\ stream = <<>>
    /\ geom = NoGeom
    /\ dec_result = NoResult
    /\ pc = "start"
    /\ PipelineIdle /\ ValidateIdle /\ SchedIdle /\ FileIdle /\ BatchIdle

NextTotal ==
    \/ Jpeg2000Codec_encode
    \/ JpegLsCodec_encode
    \/ Jpeg2000Codec_decode
    \/ JpegLsCodec_decode

SpecTotal == InitTotal /\ [][NextTotal]_vars

(***************************************************************************)
(* The transform container on images whose header fields hold the byte     *)
(* pair FF 93 (SpecLarge): 65427 = 0xFF93 as a width, and 313 * 209 =      *)
(* 65417 bytes of pixel data, whose tile length 10 + 65417 is 0xFF93.      *)
(* These images are 8-bit, single-component and of one value; the small    *)
(* 8-bit single-row images are explored beside them.                       *)
(***************************************************************************)
LargeGeoms == {<<313, 209>>, <<65427, 1>>}

LargeFillVals == {0}

LargeImages ==
    {[width |-> g[1], height |-> g[2], bits_per_sample |-> 8,
      samples_per_pixel |-> 1,
      pixel_data |-> [i \in 1..(g[1] * g[2]) |-> v], is_signed |-> FALSE] :
        g \in LargeGeoms, v \in LargeFillVals}

RowImages ==
    {img \in ImagesOf(8, SampleVals8) :
        img.samples_per_pixel = 1 /\ img.height = 1}

LargeConfigs == {c \in Configs : c.mode # "Lossless"}

InitLarge ==
    /\ image \in RowImages \cup LargeImages
    /\ config \in LargeConfigs
    /\ codec = "none"
    /\ enc_result = NoResult
    /\ stream = <<>>
    /\ geom = NoGeom
    /\ dec_result = NoResult
    /\ pc = "start"
    /\ PipelineIdle /\ ValidateIdle /\ SchedIdle /\ FileIdle /\ BatchIdle

NextLarge ==
    \/ Jpeg2000Codec_encode
    \/ Jpeg2000Codec_decode

SpecLarge == InitLarge /\ [][NextLarge]_vars

(***************************************************************************)
(* Codec capabilities, the codec factory and the pipeline's compress_image *)
(* (SpecPipeline): one call on an image and a configuration.               *)
(***************************************************************************)
MaxPipeDim == 1
MaxPipeSamples == 2

PipeBitsVals == {8, 16, 17}
CodecKinds == {"Jpeg2000", "JpegLs", "Uncompressed"}

Jpeg2000Codec_capabilities ==
    [max_bits_per_sample |-> 16, supports_signed |-> TRUE,
     supports_color |-> TRUE, supports_multiframe |-> TRUE]

JpegLsCodec_capabilities ==
    [max_bits_per_sample |-> 16, supports_signed |-> TRUE,
     supports_color |-> TRUE, supports_multiframe |-> TRUE]

UncompressedCodec_capabilities ==
    [max_bits_per_sample |-> 16, supports_signed |-> TRUE,
     supports_color |-> TRUE, supports_multiframe |-> TRUE]

\* CodecFactory::create: the implementation behind a CompressionCodec.
CodecFactory_create(codec_type) ==
    CASE codec_type = "Jpeg2000" -> "j2k"
      [] codec_type = "JpegLs" -> "jls"
      [] codec_type = "Uncompressed" -> "raw"

capabilities(k) ==
    CASE k = "j2k" -> Jpeg2000Codec_capabilities
      [] k = "jls" -> JpegLsCodec_capabilities
      [] k = "raw" -> UncompressedCodec_capabilities

\* can_encode with a strict comparison of the bit depth.
can_encode_strict_bits(k, img) ==
    LET caps == capabilities(k)
    IN  /\ img.bits_per_sample < caps.max_bits_per_sample
        /\ (img.samples_per_pixel = 1 \/ caps.supports_color)
        /\ (~img.is_signed \/ caps.supports_signed)

can_encode(k, img) ==
    LET caps == capabilities(k)
    IN  /\ img.bits_per_sample <= caps.max_bits_per_sample
        /\ (img.samples_per_pixel = 1 \/ caps.supports_color)
        /\ (~img.is_signed \/ caps.supports_signed)

Codec_encode(k, img, cfg, checks) ==
    CASE k = "j2k" -> encode_j2k(img, cfg, checks)
      [] k = "jls" -> encode_jls(img, cfg, checks)
      [] k = "raw" -> Ok(img.pixel_data)

Codec_decode(k, data, width, height, bits_per_sample, samples_per_pixel, checks) ==
    CASE k = "j2k" -> decode_j2k(data, width, height, bits_per_sample,
                                 samples_per_pixel)
      [] k = "jls" -> decode_jls(data, width, height, bits_per_sample,
                                 samples_per_pixel, checks)
      [] k = "raw" -> Ok(data)

\* The verification condition of compress_image without its test of the mode.
verify_required_any_mode(cfg) == cfg.verify_compression

verify_required(cfg) == cfg.verify_compression /\ cfg.mode = "Lossless"

\* verify_lossless, given what decode returned: the decode failure, a
\* Validation error on a mismatch, or Ok(()).
verify_lossless(original, d) ==
    IF d.tag # "Ok" THEN d
    ELSE IF d.bytes # original.pixel_data
    THEN Err("Validation",
             "Lossless verification failed: decoded data differs from original")
    ELSE Ok(<<>>)

PipeSampleSeqs(vals) == UNION {[1..n -> vals] : n \in 0..MaxPipeSamples}

PipeImages ==
    {[width |-> w, height |-> h, bits_per_sample |-> b,
      samples_per_pixel |-> spp,
      pixel_data |-> pixel_bytes(b, ss), is_signed |-> sg] :
        w \in 0..MaxPipeDim, h \in 0..MaxPipeDim, b \in PipeBitsVals,
        spp \in SppVals, sg \in BOOLEAN,
        ss \in PipeSampleSeqs(SampleVals8)}
    \cup
    {[width |-> w, height |-> h, bits_per_sample |-> b,
      samples_per_pixel |-> spp,
      pixel_data |-> pixel_bytes(b, ss), is_signed |-> sg] :
        w \in 0..MaxPipeDim, h \in 0..MaxPipeDim, b \in PipeBitsVals \ {8},
        spp \in SppVals, sg \in BOOLEAN,
        ss \in PipeSampleSeqs(SampleVals16)}

PipeConfigs ==
    {[c EXCEPT !.codec = k, !.verify_compression = v] :
        c \in Configs, k \in CodecKinds, v \in BOOLEAN}

InitPipeline ==
    /\ image \in PipeImages
    /\ config \in PipeConfigs
    /\ codec = "none"
    /\ enc_result = NoResult
    /\ stream = <<>>
    /\ geom = NoGeom
    /\ dec_result = NoResult
    /\ pc = "start"
    /\ PipelineIdle /\ ValidateIdle /\ SchedIdle /\ FileIdle /\ BatchIdle

compress_image ==
    /\ pc = "start"
    /\ \E checks \in BOOLEAN :
        LET k == CodecFactory_create(config.codec)
            ok == can_encode(k, image)
            e == IF ok THEN Codec_encode(k, image, config, checks) ELSE NoResult
            verify == ok /\ e.tag = "Ok" /\ verify_required(config)
            d == IF verify
                 THEN Codec_decode(k, e.bytes, image.width, image.height,
                                   image.bits_per_sample,
                                   image.samples_per_pixel, checks)
                 ELSE NoResult
            r == IF ~ok THEN Err("Codec", "Codec cannot encode this image")
                 ELSE IF e.tag # "Ok" THEN e
                 ELSE IF ~verify THEN Ok(e.bytes)
                 ELSE IF verify_lossless(image, d).tag # "Ok"
                 THEN verify_lossless(image, d)
                 ELSE Ok(e.bytes)
        IN  /\ codec' = k
            /\ enc_result' = e
            /\ stream' = e.bytes
            /\ geom' = geometry_of(image)
            /\ dec_result' = d
            /\ pipeline' = [can_encode |-> ok, result |-> r]
            /\ pc' = "done"
    /\ UNCHANGED <<image, config, validate_vars, sched_vars, file_vars, batch_vars>>

NextPipeline == compress_image

SpecPipeline == InitPipeline /\ [][NextPipeline]_vars

(***************************************************************************)
(* Modality safety: CompressionConfig::validate_for_modality               *)
(* (SpecValidate): one call on a configuration and a modality.             *)
(***************************************************************************)
Modalities == {"CT", "MR", "CR", "DX", "MG", "US", "NM", "PT", "SM", "Other"}
Modes == {"Lossless", "Lossy", "NearLossless"}

requires_lossless(m) == m = "MG"

\* validate_for_modality without its test of override_safety_checks.
validate_for_modality_ignoring_override(cfg, m) ==
    IF requires_lossless(m) /\ cfg.mode # "Lossless"
    THEN Err("String", "Modality requires lossless compression")
    ELSE Ok(<<>>)

validate_for_modality(cfg, m) ==
    IF requires_lossless(m) /\ cfg.mode # "Lossless"
       /\ ~cfg.override_safety_checks
    THEN Err("String", "Modality requires lossless compression")
    ELSE Ok(<<>>)

ValidateConfigs ==
    {[default_config EXCEPT !.codec = k, !.mode = md,
                            !.override_safety_checks = o] :
        k \in CodecKinds, md \in Modes, o \in BOOLEAN}

InitValidate ==
    /\ image = NoImage
    /\ config \in ValidateConfigs
    /\ codec = "none"
    /\ enc_result = NoResult
    /\ stream = <<>>
    /\ geom = NoGeom
    /\ dec_result = NoResult
    /\ pc = "start"
    /\ modality \in Modalities
    /\ validation = NoResult
    /\ PipelineIdle /\ SchedIdle /\ FileIdle /\ BatchIdle

CompressionConfig_validate_for_modality ==
    /\ pc = "start"
    /\ validation' = validate_for_modality(config, modality)
    /\ pc' = "done"
    /\ UNCHANGED <<image, config, codec, enc_result, stream, geom, dec_result>>
    /\ UNCHANGED <<modality, pipeline_vars, sched_vars, file_vars, batch_vars>>

NextValidate == CompressionConfig_validate_for_modality

SpecValidate == InitValidate /\ [][NextValidate]_vars

(***************************************************************************)
(* The pipeline's compress_file (SpecFile): one call on a DICOM file, of   *)
(* which the model keeps the modality, whether open and to_image_data      *)
(* succeed, whether the source is already compressed, and the image.       *)
(***************************************************************************)
DicomFiles ==
    [open_ok : BOOLEAN, is_compressed : BOOLEAN, image_ok : BOOLEAN]

FileImages ==
    {img \in PipeImages :
        /\ img.width = 1 /\ img.height = 1 /\ ~img.is_signed
        /\ Len(img.pixel_data) =
            img.samples_per_pixel * (IF img.bits_per_sample <= 8 THEN 1 ELSE 2)}

\* The warnings compress_file has pushed when it reaches to_image_data: the
\* first is pushed only when validate_for_modality returned Err and the
\* configuration overrides the safety checks.
compress_file_warnings(cfg, m, dcm) ==
    (IF validate_for_modality(cfg, m).tag # "Ok" /\ cfg.override_safety_checks
     THEN <<"Safety check overridden">> ELSE <<>>)
    \o (IF dcm.is_compressed THEN <<"Source is already compressed">> ELSE <<>>)

InitFile ==
    /\ image \in FileImages
    /\ config \in ValidateConfigs
    /\ codec = "none"
    /\ enc_result = NoResult
    /\ stream = <<>>
    /\ geom = NoGeom
    /\ dec_result = NoResult
    /\ pc = "start"
    /\ modality \in Modalities
    /\ validation = NoResult
    /\ dicom \in DicomFiles
    /\ warnings = <<>>
    /\ PipelineIdle /\ SchedIdle /\ BatchIdle

\* compress_file: pipeline.result is Ok for a returned CompressionResult,
\* whose warnings are kept in the variable warnings.
CompressionPipeline_compress_file ==
    /\ pc = "start"
    /\ \E checks \in BOOLEAN :
        LET v == validate_for_modality(config, modality)
            rejected == v.tag # "Ok" /\ ~config.override_safety_checks
            extracted == dicom.open_ok /\ ~rejected /\ dicom.image_ok
            k == CodecFactory_create(config.codec)
            ok == extracted /\ can_encode(k, image)
            e == IF ok THEN Codec_encode(k, image, config, checks) ELSE NoResult
            verify == ok /\ e.tag = "Ok" /\ verify_required(config)
            d == IF verify
                 THEN Codec_decode(k, e.bytes, image.width, image.height,
                                   image.bits_per_sample,
                                   image.samples_per_pixel, checks)
                 ELSE NoResult
            r == IF ~dicom.open_ok THEN Err("Dicom", "cannot open file")
                 ELSE IF rejected THEN Err("Validation", v.msg)
                 ELSE IF ~dicom.image_ok THEN Err("Dicom", "no pixel data")
                 ELSE IF ~ok THEN Err("Codec", "Codec cannot encode this image")
                 ELSE IF e.tag # "Ok" THEN e
                 ELSE IF verify /\ verify_lossless(image, d).tag # "Ok"
                 THEN verify_lossless(image, d)
                 ELSE Ok(e.bytes)
        IN  /\ validation' = (IF dicom.open_ok THEN v ELSE NoResult)
            /\ codec' = (IF extracted THEN k ELSE "none")
            /\ enc_result' = e
            /\ stream' = e.bytes
            /\ geom' = (IF ok THEN geometry_of(image) ELSE NoGeom)
            /\ dec_result' = d
            /\ pipeline' = [can_encode |-> ok, result |-> r]
            /\ warnings' = (IF r.tag = "Ok"
                            THEN compress_file_warnings(config, modality, dicom)
                            ELSE <<>>)
            /\ pc' = "done"
    /\ UNCHANGED <<image, config, modality, dicom, sched_vars, batch_vars>>

NextFile == CompressionPipeline_compress_file

SpecFile == InitFile /\ [][NextFile]_vars

(***************************************************************************)
(* The batch scheduler (SpecSched): schedule and schedule_with_progress    *)
(* run each job on a pool of num_threads threads; cancel and reset may be  *)
(* called from another thread at any time.  A pool thread's steps on a job *)
(* are: the load of the cancellation flag, the call of the processor, the  *)
(* fetch_add on the completed counter (with the progress callback).        *)
(***************************************************************************)
MaxJobs == 2
MaxRuns == 2

\* Thread counts handed to BatchScheduler::new.
ThreadCountVals == {0, 1, 2}

\* A JobResult: whether compression_result is Some, and the error if any.
JobResultOk == [compression_result |-> TRUE, error |-> "None"]
JobResultFailed == [compression_result |-> FALSE, error |-> "Codec"]
JobResultCancelled == [compression_result |-> FALSE, error |-> "Internal(Cancelled)"]
NoJobResult == [compression_result |-> FALSE, error |-> "None"]

\* What the processor returns for a job.
ProcessorResults == {JobResultOk, JobResultFailed}

BatchScheduler_new(num_threads) ==
    [num_threads |-> max(num_threads, 1), cancelled |-> FALSE, completed |-> 0]

\* A store of 1 in place of the atomic add.
fetch_add_as_store(value, n) == n

\* AtomicUsize::fetch_add: the new value of the counter.
fetch_add(value, n) == value + n

\* A scheduler that never sees the cancellation flag.
cancelled_load_never(s) == FALSE

\* cancelled.load(Ordering::SeqCst)
cancelled_load(s) == s.cancelled

NewJob(outcome) ==
    [st |-> "pending", outcome |-> outcome, saw_cancel |-> FALSE,
     invoked |-> FALSE, counted |-> FALSE, result |-> NoJobResult]

InitSched ==
    /\ image = NoImage
    /\ config = default_config
    /\ codec = "none"
    /\ enc_result = NoResult
    /\ stream = <<>>
    /\ geom = NoGeom
    /\ dec_result = NoResult
    /\ pc = "start"
    /\ PipelineIdle /\ ValidateIdle /\ FileIdle /\ BatchIdle
    /\ sched \in {BatchScheduler_new(n) : n \in ThreadCountVals}
    /\ sjobs = <<>>
    /\ workers = [t \in 1..sched.num_threads |-> 0]
    /\ srun = NoRun

\* The entry of schedule / schedule_with_progress: the pool is built and the
\* jobs are handed to it.
StartRun(jobs, with_progress) ==
    /\ srun.runs < MaxRuns
    /\ sjobs' = jobs
    /\ workers' = [t \in 1..sched.num_threads |-> 0]
    /\ srun' = [srun EXCEPT !.pc = "running",
                            !.with_progress = with_progress,
                            !.start_completed = sched.completed,
                            !.cancelled_at_start = sched.cancelled,
                            !.cancel_in_run = FALSE,
                            !.reset_in_run = FALSE,
                            !.results = <<>>,
                            !.progress = <<>>]
    /\ UNCHANGED <<sched, codec_vars, pipeline_vars, validate_vars, file_vars, batch_vars>>

BatchScheduler_schedule ==
    /\ srun.pc = "idle"
    /\ \E n \in 0..MaxJobs : \E outcomes \in [1..n -> ProcessorResults] :
        StartRun([j \in 1..n |-> NewJob(outcomes[j])], FALSE)

BatchScheduler_schedule_with_progress ==
    /\ srun.pc = "idle"
    /\ \E n \in 0..MaxJobs : \E outcomes \in [1..n -> ProcessorResults] :
        StartRun([j \in 1..n |-> NewJob(outcomes[j])], TRUE)

\* A free pool thread takes a job and loads the cancellation flag: the job
\* is either answered with the Cancelled result or goes on to the processor.
Worker_check_cancelled(t, j) ==
    /\ srun.pc = "running"
    /\ workers[t] = 0
    /\ sjobs[j].st = "pending"
    /\ IF cancelled_load(sched)
       THEN /\ sjobs' = [sjobs EXCEPT ![j].st = "done",
                                      ![j].saw_cancel = sched.cancelled,
                                      ![j].result = JobResultCancelled]
            /\ UNCHANGED workers
       ELSE /\ sjobs' = [sjobs EXCEPT ![j].st = "started",
                                      ![j].saw_cancel = sched.cancelled]
            /\ workers' = [workers EXCEPT ![t] = j]
    /\ UNCHANGED <<sched, srun, codec_vars, pipeline_vars, validate_vars, file_vars, batch_vars>>

\* processor(&job)
Worker_process(t) ==
    /\ srun.pc = "running"
    /\ workers[t] # 0
    /\ sjobs[workers[t]].st = "started"
    /\ sjobs' = [sjobs EXCEPT ![workers[t]].st = "processed",
                              ![workers[t]].invoked = TRUE,
                              ![workers[t]].result = sjobs[workers[t]].outcome]
    /\ UNCHANGED <<sched, workers, srun, codec_vars, pipeline_vars, validate_vars, file_vars, batch_vars>>

\* completed.fetch_add(1), and progress(done, total) in
\* schedule_with_progress; the closure returns the processor's result.
Worker_fetch_add(t) ==
    /\ srun.pc = "running"
    /\ workers[t] # 0
    /\ sjobs[workers[t]].st = "processed"
    /\ sched' = [sched EXCEPT !.completed = fetch_add(sched.completed, 1)]
    /\ srun' = IF srun.with_progress
               THEN [srun EXCEPT !.progress =
                        Append(srun.progress, fetch_add(sched.completed, 1))]
               ELSE srun
    /\ sjobs' = [sjobs EXCEPT ![workers[t]].st = "done",
                              ![workers[t]].counted = TRUE]
    /\ workers' = [workers EXCEPT ![t] = 0]
    /\ UNCHANGED <<codec_vars, pipeline_vars, validate_vars, file_vars, batch_vars>>

\* The steps of the pool, for any thread and any job.
Pool_check_cancelled ==
    /\ srun.pc = "running"
    /\ \E t \in 1..sched.num_threads : \E j \in 1..Len(sjobs) :
        Worker_check_cancelled(t, j)

Pool_process ==
    /\ srun.pc = "running"
    /\ \E t \in 1..sched.num_threads : Worker_process(t)

Pool_fetch_add ==
    /\ srun.pc = "running"
    /\ \E t \in 1..sched.num_threads : Worker_fetch_add(t)

\* collect(): the call returns one result per job once every job is done.
Schedule_return ==
    /\ srun.pc = "running"
    /\ \A j \in 1..Len(sjobs) : sjobs[j].st = "done"
    /\ srun' = [srun EXCEPT !.pc = "idle",
                            !.runs = srun.runs + 1,
                            !.results = [j \in 1..Len(sjobs) |-> sjobs[j].result],
                            !.completed_at_return = sched.completed]
    /\ UNCHANGED <<sched, sjobs, workers, codec_vars, pipeline_vars, validate_vars, file_vars, batch_vars>>

BatchScheduler_cancel ==
    /\ ~sched.cancelled
    /\ sched' = [sched EXCEPT !.cancelled = TRUE]
    /\ srun' = [srun EXCEPT !.cancel_in_run = srun.cancel_in_run \/ srun.pc = "running"]
    /\ UNCHANGED <<sjobs, workers, codec_vars, pipeline_vars, validate_vars, file_vars, batch_vars>>

BatchScheduler_reset ==
    /\ sched.cancelled \/ sched.completed # 0
    /\ sched' = [sched EXCEPT !.cancelled = FALSE, !.completed = 0]
    /\ srun' = [srun EXCEPT !.reset_in_run = srun.reset_in_run \/ srun.pc = "running"]
    /\ UNCHANGED <<sjobs, workers, codec_vars, pipeline_vars, validate_vars, file_vars, batch_vars>>

NextSched ==
    \/ BatchScheduler_schedule
    \/ BatchScheduler_schedule_with_progress
    \/ Pool_check_cancelled
    \/ Pool_process
    \/ Pool_fetch_add
    \/ Schedule_return
    \/ BatchScheduler_cancel
    \/ BatchScheduler_reset

SpecSched == InitSched /\ [][NextSched]_vars

(***************************************************************************)
(* The batch processor reporting through a ChannelProgress (SpecBatch):    *)
(* one process_files call on a pool of max_parallel threads, while another *)
(* thread runs ProgressReceiver::collect_until_complete and either side    *)
(* may request cancellation.  A pool thread's steps on a file are: the     *)
(* load of the cancellation flags with the Reading event, and the end of   *)
(* process_single_file with its Complete or Failed event.                  *)
(***************************************************************************)
MaxFiles == 2

\* Values handed to BatchProcessor::max_parallel.
ParallelVals == {1, 2}

\* What process_single_file meets: compress_file returns Ok or Err, or the
\* output directory cannot be created.
FileOutcomes == {"Ok", "Err", "DirErr"}

ProgressPhase_is_terminal(phase) == phase \in {"Complete", "Failed"}

\* A ProgressEvent: its phase and the index of its current_file (0: None).
ProgressEvent(phase, file) == [phase |-> phase, current_file |-> file]

BatchProcessor_is_cancelled == batch.cancelled \/ receiver.cancelled

\* ChannelProgress: on_progress, on_error and on_complete send one event.
ChannelProgress_send(event) == channel' = Append(channel, event)

ReadingFiles == {i \in 1..Len(batch.files) : batch.files[i].st = "reading"}

InitBatch ==
    /\ image = NoImage
    /\ config = default_config
    /\ codec = "none"
    /\ enc_result = NoResult
    /\ stream = <<>>
    /\ geom = NoGeom
    /\ dec_result = NoResult
    /\ pc = "start"
    /\ PipelineIdle /\ ValidateIdle /\ SchedIdle /\ FileIdle
    /\ batch \in {[NoBatch EXCEPT !.max_parallel = n] : n \in ParallelVals}
    /\ channel = <<>>
    /\ receiver = NoReceiver

\* process_files and process_files_internal up to the pool: no files is an
\* error; otherwise the Discovery event is sent and a cancelled call returns.
BatchProcessor_process_files ==
    /\ batch.pc = "idle"
    /\ \E n \in 0..MaxFiles : \E outcomes \in [1..n -> FileOutcomes] :
        IF n = 0
        THEN /\ batch' = [batch EXCEPT !.pc = "returned"]
             /\ UNCHANGED channel
        ELSE /\ ChannelProgress_send(ProgressEvent("Discovery", 0))
             /\ batch' = [batch EXCEPT
                    !.files = [i \in 1..n |->
                                [st |-> "pending", outcome |-> outcomes[i]]],
                    !.pc = IF BatchProcessor_is_cancelled
                           THEN "returned" ELSE "running"]
    /\ UNCHANGED <<receiver, codec_vars, pipeline_vars, validate_vars,
                   sched_vars, file_vars>>

\* A free pool thread takes a file: a cancelled file is answered at once,
\* any other enters process_single_file, which sends the Reading event.
Pool_file_start ==
    /\ batch.pc = "running"
    /\ Cardinality(ReadingFiles) < batch.max_parallel
    /\ \E i \in 1..Len(batch.files) :
        /\ batch.files[i].st = "pending"
        /\ IF BatchProcessor_is_cancelled
           THEN /\ batch' = [batch EXCEPT !.files[i].st = "done"]
                /\ UNCHANGED channel
           ELSE /\ batch' = [batch EXCEPT !.files[i].st = "reading"]
                /\ ChannelProgress_send(ProgressEvent("Reading", i))
    /\ UNCHANGED <<receiver, codec_vars, pipeline_vars, validate_vars,
                   sched_vars, file_vars>>

\* The end of process_single_file: a Complete event after compress_file
\* returned Ok, on_error (a Failed event) after it returned Err, no event
\* when the output directory could not be created.
Pool_file_finish ==
    /\ batch.pc = "running"
    /\ \E i \in ReadingFiles :
        /\ batch' = [batch EXCEPT !.files[i].st = "done"]
        /\ CASE batch.files[i].outcome = "Ok" ->
                    ChannelProgress_send(ProgressEvent("Complete", i))
             [] batch.files[i].outcome = "Err" ->
                    ChannelProgress_send(ProgressEvent("Failed", i))
             [] batch.files[i].outcome = "DirErr" -> UNCHANGED channel
    /\ UNCHANGED <<receiver, codec_vars, pipeline_vars, validate_vars,
                   sched_vars, file_vars>>

\* The pool is done: on_complete(&stats), then the call returns.
BatchProcessor_return ==
    /\ batch.pc = "running"
    /\ \A i \in 1..Len(batch.files) : batch.files[i].st = "done"
    /\ ChannelProgress_send(ProgressEvent("Complete", 0))
    /\ batch' = [batch EXCEPT !.pc = "returned"]
    /\ UNCHANGED <<receiver, codec_vars, pipeline_vars, validate_vars,
                   sched_vars, file_vars>>

BatchProcessor_cancel ==
    /\ ~batch.cancelled
    /\ batch' = [batch EXCEPT !.cancelled = TRUE]
    /\ UNCHANGED <<channel, receiver, codec_vars, pipeline_vars, validate_vars,
                   sched_vars, file_vars>>

ProgressReceiver_cancel ==
    /\ ~receiver.cancelled
    /\ receiver' = [receiver EXCEPT !.cancelled = TRUE]
    /\ UNCHANGED <<batch, channel, codec_vars, pipeline_vars, validate_vars,
                   sched_vars, file_vars>>

\* One turn of the loop of collect_until_complete: recv() yields the next
\* event, which is pushed; a terminal event ends the loop.
ProgressReceiver_collect_recv ==
    /\ ~receiver.returned
    /\ receiver.taken < Len(channel)
    /\ receiver' = [receiver EXCEPT
            !.taken = receiver.taken + 1,
            !.returned = ProgressPhase_is_terminal(channel[receiver.taken + 1].phase)]
    /\ UNCHANGED <<batch, channel, codec_vars, pipeline_vars, validate_vars,
                   sched_vars, file_vars>>

\* recv() fails once the processor, and with it the sender, is gone and the
\* channel is empty: the loop ends without a terminal event.
ProgressReceiver_collect_disconnected ==
    /\ ~receiver.returned
    /\ receiver.taken = Len(channel)
    /\ batch.pc = "returned"
    /\ receiver' = [receiver EXCEPT !.returned = TRUE]
    /\ UNCHANGED <<batch, channel, codec_vars, pipeline_vars, validate_vars,
                   sched_vars, file_vars>>

NextBatch ==
    \/ BatchProcessor_process_files
    \/ Pool_file_start
    \/ Pool_file_finish
    \/ BatchProcessor_return
    \/ BatchProcessor_cancel
    \/ ProgressReceiver_cancel
    \/ ProgressReceiver_collect_recv
    \/ ProgressReceiver_collect_disconnected

SpecBatch == InitBatch /\ [][NextBatch]_vars

(***************************************************************************)
(* Properties.                                                             *)
(***************************************************************************)
\* The size invariant of a PixelBuffer, with nonzero dimensions.
WellFormed(img) ==
    /\ img.width >= 1
    /\ img.height >= 1
    /\ Len(img.pixel_data) = calculate_expected_size(img)

abs_diff(a, b) == IF a >= b THEN a - b ELSE b - a

RoundTripExact ==
    /\ dec_result.tag = "Ok"
    /\ dec_result.bytes = image.pixel_data

\* C1: a lossless transform-container encode followed by decode with the
\* same geometry returns the pixel data of every well-formed image.
C1_J2kLosslessRoundTrip ==
    (pc = "done" /\ codec = "j2k" /\ enc_result.tag = "Ok"
        /\ config.mode = "Lossless" /\ WellFormed(image))
    => RoundTripExact

\* C2: a lossless prediction-container encode followed by decode with the
\* same geometry returns the pixel data of every well-formed single-component
\* image, 8-bit or 16-bit.
C2_JlsLosslessRoundTripSingle ==
    (pc = "done" /\ codec = "jls" /\ enc_result.tag = "Ok"
        /\ config.mode = "Lossless" /\ WellFormed(image)
        /\ image.samples_per_pixel = 1)
    => RoundTripExact

C2_Witness ==
    /\ pc = "done" /\ codec = "jls" /\ enc_result.tag = "Ok"
    /\ config.mode = "Lossless" /\ WellFormed(image)
    /\ image.samples_per_pixel = 1
    /\ image.width = 2 /\ image.height = 2 /\ image.bits_per_sample = 16
    /\ image.pixel_data = <<0, 0, 255, 255, 0, 128, 5, 0>>
    /\ dec_result.bytes = image.pixel_data

\* C3: after a near-lossless prediction-container round trip of an 8-bit
\* single-component image, every sample differs from the original by at most
\* 2*near + 1, the difference taken on the unsigned values.
C3_NearLosslessBound8 ==
    (pc = "done" /\ codec = "jls" /\ enc_result.tag = "Ok"
        /\ config.mode = "NearLossless" /\ config.near_lossless_error >= 1
        /\ image.bits_per_sample = 8 /\ image.samples_per_pixel = 1
        /\ WellFormed(image))
    => /\ dec_result.tag = "Ok"
       /\ Len(dec_result.bytes) = Len(image.pixel_data)
       /\ \A i \in 1..Len(image.pixel_data) :
            abs_diff(image.pixel_data[i], dec_result.bytes[i])
                <= 2 * config.near_lossless_error + 1

\* C4: a lossless prediction-container round trip returns the pixel data of
\* every well-formed image with two or more interleaved components.
C4_JlsLosslessRoundTripMulti ==
    (pc = "done" /\ codec = "jls" /\ enc_result.tag = "Ok"
        /\ config.mode = "Lossless" /\ WellFormed(image)
        /\ image.samples_per_pixel >= 2)
    => RoundTripExact

\* C5: the transform-container output for a well-formed 8-bit image in Lossy
\* mode is strictly shorter than the image's pixel data.
C5_LossySmallerThanSource ==
    (pc \in {"ready", "done"} /\ codec = "j2k" /\ enc_result.tag = "Ok"
        /\ config.mode = "Lossy" /\ image.bits_per_sample = 8
        /\ WellFormed(image))
    => Len(enc_result.bytes) < Len(image.pixel_data)

\* C6: every pixel buffer a decode returns has the length the geometry
\* passed to decode requires.
C6_DecodedSizeInvariant ==
    (pc = "done" /\ dec_result.tag = "Ok")
    => Len(dec_result.bytes) = calculate_expected_size(geom)

\* C7: decode of any byte sequence returns a pixel buffer or a Codec-class
\* error; it never aborts.
C7_DecodeTotal ==
    pc = "done"
    => \/ dec_result.tag = "Ok"
       \/ dec_result.tag = "Err" /\ dec_result.class = "Codec"

\* The data-start marker FF 93 occurs nowhere after the start marker.
NoSodMarker(data) ==
    \A i \in 3..(Len(data) - 1) : ~(data[i] = 255 /\ data[i + 1] = 147)

\* C8: transform-container decode of an input that starts with FF 4F and
\* holds no FF 93 marker returns a Codec-class error ("no tile data found"
\* once the input has the minimum length), with or without a trailing FF D9.
C8_NoSodIsCodecError ==
    (pc = "done" /\ codec = "j2k" /\ Len(stream) >= 2
        /\ stream[1] = 255 /\ stream[2] = 79 /\ NoSodMarker(stream))
    => /\ dec_result.tag = "Err"
       /\ dec_result.class = "Codec"
       /\ (Len(stream) >= 4
            => dec_result.msg = "Invalid J2K data: no tile data found")

\* C9: both encoders return an ImageData-class error and no bytes when the
\* pixel data is shorter than the geometry requires.
C9_EncodeRejectsShortBuffer ==
    (pc # "start" /\ Len(image.pixel_data) < calculate_expected_size(image))
    => /\ enc_result.tag = "Err"
       /\ enc_result.class = "ImageData"
       /\ enc_result.bytes = <<>>

\* C10: both encoders, in every mode, return an ImageData-class error and no
\* bytes when the width is 0, the height is 0 or the pixel data is empty.
C10_EncodeRejectsEmpty ==
    (pc # "start"
        /\ (image.width = 0 \/ image.height = 0 \/ image.pixel_data = <<>>))
    => /\ enc_result.tag = "Err"
       /\ enc_result.class = "ImageData"
       /\ enc_result.bytes = <<>>
       /\ stream = <<>>

C10_Witness ==
    /\ pc = "failed" /\ codec = "jls"
    /\ config.mode = "NearLossless"
    /\ image.width = 2 /\ image.height = 0
    /\ image.pixel_data # <<>>
    /\ enc_result.class = "ImageData"

\* The marker segments of a codestream from position pos on, as <<marker,
\* position>> pairs: each segment is FF, a marker byte and a big-endian
\* length that counts itself; the walk ends at the marker `last`.
RECURSIVE segment_walk(_, _, _)
segment_walk(data, pos, last) ==
    IF pos + 1 > Len(data) \/ data[pos] # 255 THEN <<>>
    ELSE IF data[pos + 1] = last THEN << <<last, pos>> >>
    ELSE IF pos + 3 > Len(data) THEN << <<data[pos + 1], pos>> >>
    ELSE << <<data[pos + 1], pos>> >>
         \o segment_walk(data,
                         pos + 2 + u16_from_be_bytes(data[pos + 2], data[pos + 3]),
                         last)

segment_markers(data, last) ==
    LET w == segment_walk(data, 3, last)
    IN  [i \in 1..Len(w) |-> w[i][1]]

ends_with_eoc(data) ==
    Len(data) >= 2 /\ data[Len(data) - 1] = 255 /\ data[Len(data)] = 217

\* C11: decode of an input shorter than 4 bytes, or of one that does not
\* begin with the codec's start marker (FF 4F for the transform container,
\* FF D8 for the prediction container), returns a Codec-class error and no
\* pixel buffer.
C11_DecodeRejectsBadStart ==
    (pc = "done"
        /\ \/ Len(stream) < 4
           \/ codec = "j2k" /\ (stream[1] # 255 \/ stream[2] # 79)
           \/ codec = "jls" /\ (stream[1] # 255 \/ stream[2] # 216))
    => /\ dec_result.tag = "Err"
       /\ dec_result.class = "Codec"
       /\ dec_result.bytes = <<>>

C11_Witness ==
    /\ pc = "done" /\ codec = "j2k"
    /\ stream = <<255, 216, 255, 147, 0, 0>>
    /\ dec_result.tag = "Err" /\ dec_result.class = "Codec"
    /\ dec_result.msg = "Invalid J2K data: missing SOC marker"

\* C12: every successful encode output carries its container's markers: the
\* transform container begins FF 4F, ends FF D9 and its segments are FF 51,
\* FF 52, FF 5C, FF 90 in that order with FF 93 after the tile header; the
\* prediction container begins FF D8, ends FF D9 and its segments are FF F7,
\* then FF F8 exactly when the mode is NearLossless with tolerance >= 1,
\* then FF DA.
C12_EncodeMarkerStructure ==
    (pc \in {"ready", "done"} /\ enc_result.tag = "Ok" /\ codec \in {"j2k", "jls"})
    => /\ Len(enc_result.bytes) >= 4
       /\ ends_with_eoc(enc_result.bytes)
       /\ codec = "j2k" =>
            LET w == segment_walk(enc_result.bytes, 3, 144)
            IN  /\ enc_result.bytes[1] = 255 /\ enc_result.bytes[2] = 79
                /\ [i \in 1..Len(w) |-> w[i][1]] = <<81, 82, 92, 144>>
                /\ Len(enc_result.bytes) >= w[4][2] + 13
                /\ enc_result.bytes[w[4][2] + 12] = 255
                /\ enc_result.bytes[w[4][2] + 13] = 147
       /\ codec = "jls" =>
            /\ enc_result.bytes[1] = 255 /\ enc_result.bytes[2] = 216
            /\ segment_markers(enc_result.bytes, 218) =
                    IF config.mode = "NearLossless" /\ config.near_lossless_error >= 1
                    THEN <<247, 248, 218>>
                    ELSE <<247, 218>>

C12_Witness ==
    /\ pc = "ready" /\ codec = "jls" /\ enc_result.tag = "Ok"
    /\ config.mode = "NearLossless" /\ config.near_lossless_error = 2
    /\ segment_markers(enc_result.bytes, 218) = <<247, 248, 218>>
    /\ ends_with_eoc(enc_result.bytes)

\* C13: for each of the three codecs the factory creates, can_encode is
\* false exactly when bits_per_sample exceeds 16, whatever the sign and the
\* component count of the image; compress_image then returns a Codec-class
\* error without encoding.
C13_CanEncodeIffAtMost16Bits ==
    /\ \A k \in CodecKinds :
        can_encode(CodecFactory_create(k), image) <=> image.bits_per_sample <= 16
    /\ pc = "done" =>
        /\ pipeline.can_encode <=> image.bits_per_sample <= 16
        /\ ~pipeline.can_encode =>
            /\ pipeline.result.tag = "Err" /\ pipeline.result.class = "Codec"
            /\ enc_result = NoResult

C13_Witness ==
    /\ pc = "done" /\ config.codec = "Uncompressed"
    /\ image.bits_per_sample = 17 /\ ~image.is_signed
    /\ image.samples_per_pixel = 1
    /\ ~pipeline.can_encode /\ pipeline.result.class = "Codec"

C17_ModalitySafety ==
    pc = "done" =>
        /\ validation.tag \in {"Ok", "Err"}
        /\ validation.tag = "Err" <=>
            (modality = "MG" /\ config.mode # "Lossless"
                /\ ~config.override_safety_checks)

C17_Witness ==
    /\ pc = "done" /\ modality = "MG" /\ config.mode = "NearLossless"
    /\ config.override_safety_checks
    /\ validation.tag = "Ok"

\* The jobs of the current call that incremented the completed counter.
CountedJobs == {j \in 1..Len(sjobs) : sjobs[j].counted}

\* C18: schedule on a fresh or reset scheduler, with no cancellation,
\* returns exactly one JobResult per job (none for no jobs) and leaves
\* completed() equal to the number of jobs, for every thread count and
\* every interleaving of the pool threads: no increment is lost.
C18_ScheduleCountsEveryJob ==
    (~srun.cancelled_at_start /\ ~srun.cancel_in_run /\ ~srun.reset_in_run
        /\ srun.start_completed = 0)
    => /\ srun.pc = "running" => sched.completed = Cardinality(CountedJobs)
       /\ (srun.pc = "idle" /\ srun.runs >= 1) =>
            /\ Len(srun.results) = Len(sjobs)
            /\ srun.completed_at_return = Len(sjobs)
            /\ \A j \in 1..Len(sjobs) : srun.results[j] = sjobs[j].outcome

C18_Witness ==
    /\ srun.pc = "idle" /\ srun.runs = 2
    /\ ~srun.cancelled_at_start /\ ~srun.cancel_in_run /\ ~srun.reset_in_run
    /\ srun.start_completed = 0
    /\ sched.num_threads = 2
    /\ Len(srun.results) = 2
    /\ srun.completed_at_return = 2

\* C19: cancellation is checked only between jobs: a job that passed the
\* check before cancel() runs to completion and yields the processor's own
\* result; a job that starts while the flag is set yields a result with an
\* error, the processor is not invoked for it and completed() is not
\* incremented; if cancel() precedes schedule(), every result has an error.
C19_CancelBetweenJobs ==
    /\ \A j \in 1..Len(sjobs) :
        /\ (sjobs[j].st # "pending" /\ sjobs[j].saw_cancel) =>
            /\ sjobs[j].st = "done"
            /\ sjobs[j].result.error # "None"
            /\ ~sjobs[j].result.compression_result
            /\ ~sjobs[j].invoked
            /\ ~sjobs[j].counted
        /\ (sjobs[j].st \in {"processed", "done"} /\ ~sjobs[j].saw_cancel) =>
            /\ sjobs[j].invoked
            /\ sjobs[j].result = sjobs[j].outcome
            /\ sjobs[j].st = "done" => sjobs[j].counted
    /\ (srun.pc = "idle" /\ srun.runs >= 1
            /\ srun.cancelled_at_start /\ ~srun.reset_in_run) =>
        /\ \A j \in 1..Len(srun.results) : srun.results[j].error # "None"
        /\ \A j \in 1..Len(sjobs) : ~sjobs[j].invoked
        /\ srun.completed_at_return = srun.start_completed

C19_Witness ==
    /\ srun.pc = "idle" /\ srun.runs = 1
    /\ ~srun.cancelled_at_start /\ srun.cancel_in_run /\ ~srun.reset_in_run
    /\ Len(sjobs) = 2
    /\ ~sjobs[1].saw_cancel /\ sjobs[1].invoked /\ srun.results[1] = JobResultOk
    /\ sjobs[2].saw_cancel /\ srun.results[2] = JobResultCancelled
    /\ srun.completed_at_return = 1

\* C20: in every transform-container encode output, in Lossless and in
\* Lossy mode, the tile length written after the FF 90 marker and the
\* 4-byte tile-part length both equal 10 + the number of payload bytes
\* between the FF 93 marker and the final FF D9.
C20_TileLengthMatchesPayload ==
    (pc \in {"ready", "done"} /\ codec = "j2k" /\ enc_result.tag = "Ok"
        /\ config.mode \in {"Lossless", "Lossy"})
    => LET out == enc_result.bytes
           w == segment_walk(out, 3, 144)
           sot == w[Len(w)][2]
           payload_len == Len(out) - 2 - (sot + 13)
       IN  /\ w[Len(w)][1] = 144
           /\ out[sot + 12] = 255 /\ out[sot + 13] = 147
           /\ u16_from_be_bytes(out[sot + 2], out[sot + 3])
                = (10 + payload_len) % 65536
           /\ <<out[sot + 6], out[sot + 7], out[sot + 8], out[sot + 9]>>
                = u32_to_be_bytes(10 + payload_len)

\* C21: on the 16-bit near-lossless path the decoder's prediction at every
\* pixel equals the prediction the encoder used for that pixel, for every
\* 16-bit single-component image encoded with NearLossless and near > 0.
C21_Predictor16Mirrored ==
    (pc = "done" /\ codec = "jls" /\ enc_result.tag = "Ok"
        /\ config.mode = "NearLossless" /\ config.near_lossless_error >= 1
        /\ image.bits_per_sample = 16 /\ image.samples_per_pixel = 1
        /\ WellFormed(image))
    => /\ dec_result.tag = "Ok"
       /\ Len(dec_result.bytes) = Len(image.pixel_data)
       /\ \A i \in 0..(image.width * image.height - 1) :
            compress_16bit_prediction(image.pixel_data, i, image.width)
                = decompress_16bit_prediction(dec_result.bytes, i, image.width)

\* The tolerance encode_jls uses for a configuration.
near_of(cfg) == IF cfg.mode = "NearLossless" THEN cfg.near_lossless_error ELSE 0

\* C22: on the 8-bit path the encoder's reconstructed buffer equals, position
\* by position, the pixel buffer the decoder produces from the encoder's
\* output, for every 8-bit single-component image and every tolerance
\* 0..255: both sides predict from reconstructed samples only.
C22_NoDrift8 ==
    (pc = "done" /\ codec = "jls" /\ enc_result.tag = "Ok"
        /\ image.bits_per_sample <= 8 /\ image.samples_per_pixel = 1
        /\ WellFormed(image))
    => /\ dec_result.tag = "Ok"
       /\ dec_result.bytes =
            compress_8bit(image.pixel_data, image.width, near_of(config)).reconstructed

C22_Witness ==
    /\ pc = "done" /\ codec = "jls" /\ enc_result.tag = "Ok"
    /\ config.mode = "NearLossless" /\ config.near_lossless_error = 63
    /\ image.bits_per_sample = 8 /\ image.samples_per_pixel = 1
    /\ image.width = 2 /\ image.height = 2
    /\ image.pixel_data = <<0, 255, 128, 5>>
    /\ dec_result.tag = "Ok"
    /\ dec_result.bytes # image.pixel_data

\* C23: for every 8-bit single-component image and every tolerance 1..255,
\* each sample of the near-lossless round trip differs from the original,
\* modulo 256, by at most near: (original - decoded) mod 256 lies in
\* [0, near] or in [256 - near, 255]; the signed residual e and the stored
\* quotient q satisfy |e - q*step| <= near with step = 2*near + 1, and q
\* is stored in a signed byte without truncation.
C23_ModularNearLosslessError ==
    (pc = "done" /\ codec = "jls" /\ enc_result.tag = "Ok"
        /\ config.mode = "NearLossless" /\ config.near_lossless_error \in 1..255
        /\ image.bits_per_sample <= 8 /\ image.samples_per_pixel = 1
        /\ WellFormed(image))
    => LET near == config.near_lossless_error
           step == 2 * near + 1
           enc == compress_8bit(image.pixel_data, image.width, near)
       IN  /\ dec_result.tag = "Ok"
           /\ Len(dec_result.bytes) = Len(image.pixel_data)
           /\ \A i \in 1..Len(image.pixel_data) :
                LET d == (image.pixel_data[i] - dec_result.bytes[i]) % 256
                    prediction == compress_8bit_prediction(enc.reconstructed,
                                                           i - 1, image.width)
                    e == as_i8(wrapping_sub_u8(image.pixel_data[i], prediction))
                    q == as_i8(enc.output[i])
                IN  /\ d \in 0..near \/ d \in (256 - near)..255
                    /\ abs_diff(e, q * step) <= near

C23_Witness ==
    /\ pc = "done" /\ codec = "jls" /\ enc_result.tag = "Ok"
    /\ config.mode = "NearLossless" /\ config.near_lossless_error = 2
    /\ image.bits_per_sample = 8 /\ image.samples_per_pixel = 1
    /\ image.width = 1 /\ image.height = 1
    /\ image.pixel_data = <<0>>
    /\ dec_result.bytes = <<254>>

\* The tile payload of a transform-container codestream the encoder wrote:
\* the bytes between the SOD marker that ends the tile header and the EOC.
j2k_emitted_payload(out) ==
    LET w == segment_walk(out, 3, 144)
        sot == w[Len(w)][2]
    IN  SubSeq(out, sot + 14, Len(out) - 2)

\* C25: the delta transform is exactly invertible under wrapping
\* arithmetic: lossless_decode(lossless_encode(d, bits), bits) = d for every
\* byte sequence d on the 8-bit path and every even-length d on the 16-bit
\* path, also when successive differences wrap.
C25_DeltaInvertible ==
    (pc \in {"ready", "done"} /\ codec = "j2k" /\ enc_result.tag = "Ok"
        /\ config.mode = "Lossless"
        /\ (image.bits_per_sample <= 8 \/ Len(image.pixel_data) % 2 = 0))
    => /\ j2k_emitted_payload(enc_result.bytes)
            = lossless_encode(image.pixel_data, image.bits_per_sample)
       /\ lossless_decode(j2k_emitted_payload(enc_result.bytes),
                          image.bits_per_sample)
            = image.pixel_data

C25_Witness ==
    /\ pc = "ready" /\ codec = "j2k" /\ enc_result.tag = "Ok"
    /\ config.mode = "Lossless"
    /\ image.bits_per_sample = 16
    /\ image.pixel_data = <<255, 255, 0, 0, 0, 128>>
    /\ j2k_emitted_payload(enc_result.bytes) = <<255, 255, 1, 0, 0, 128>>

\* The samples of a pixel buffer: bytes up to 8 bits, little-endian pairs above.
samples_of(data, bits_per_sample) ==
    IF bits_per_sample <= 8 THEN data
    ELSE [k \in 1..(Len(data) \div 2) |->
            u16_from_le_bytes(data[2 * k - 1], data[2 * k])]

\* C24: for every well-formed 8-bit or 16-bit image and every encode in a
\* mode other than Lossless, the transform-container decode of the encoder's
\* output returns as many samples as the source, each equal to the original
\* with its low quantBits bits cleared (quantBits is the leading payload
\* byte): never above the original and less than 2^quantBits below it.
C24_LossyRoundTrip ==
    (pc = "done" /\ codec = "j2k" /\ enc_result.tag = "Ok"
        /\ config.mode # "Lossless" /\ WellFormed(image)
        /\ image.bits_per_sample \in {8, 16})
    => LET quant_bits == j2k_emitted_payload(enc_result.bytes)[1]
           original == samples_of(image.pixel_data, image.bits_per_sample)
           decoded == samples_of(dec_result.bytes, image.bits_per_sample)
       IN  /\ dec_result.tag = "Ok"
           /\ Len(dec_result.bytes) = Len(image.pixel_data)
           /\ Len(decoded) = Len(original)
           /\ \A i \in 1..Len(original) :
                /\ decoded[i] = (original[i] \div pow2(quant_bits)) * pow2(quant_bits)
                /\ decoded[i] <= original[i]
                /\ original[i] - decoded[i] < pow2(quant_bits)

\* C26: for every image the transform-container encode accepts, the slice
\* decode takes as tile payload is exactly the payload the encoder emitted:
\* the first FF 93 found by the scan from offset 2 is the encoder's SOD
\* marker, never bytes of a header field.
C26_PayloadLocationExact ==
    (pc \in {"ready", "done"} /\ codec = "j2k" /\ enc_result.tag = "Ok")
    => LET b == j2k_payload_bounds(enc_result.bytes)
       IN  /\ b.pos <= b.end
           /\ slice(enc_result.bytes, b.pos, b.end) = compress_tile_data(image, config)
           /\ slice(enc_result.bytes, b.pos, b.end) = j2k_emitted_payload(enc_result.bytes)

(***************************************************************************)
(* Job status and batch statistics.                                        *)
(***************************************************************************)
\* JobResult::status()
JobResult_status(r) ==
    IF r.compression_result THEN "Completed"
    ELSE IF r.error # "None" THEN "Failed"
    ELSE "Cancelled"

\* The aggregation loop of process_files_internal: stats.failed
BatchStats_failed(results) ==
    Cardinality({j \in 1..Len(results) :
        ~results[j].compression_result /\ results[j].error # "None"})

\* The jobs answered by the cancellation branch: the flag was seen set and
\* the processor was never called.
SkippedJobs ==
    {j \in 1..Len(sjobs) :
        sjobs[j].st = "done" /\ sjobs[j].saw_cancel /\ ~sjobs[j].invoked}

\* C27: every job answered by the cancellation branch of schedule or
\* schedule_with_progress has status Cancelled, not Failed, and the failed
\* count aggregated over the results of a returned call counts only jobs
\* whose processor was called and failed.
C27_SkippedJobsReportCancelled ==
    /\ \A j \in SkippedJobs : JobResult_status(sjobs[j].result) = "Cancelled"
    /\ (srun.pc = "idle" /\ Len(srun.results) = Len(sjobs))
        => BatchStats_failed(srun.results) =
            Cardinality({j \in 1..Len(sjobs) :
                sjobs[j].invoked /\ sjobs[j].result = JobResultFailed})

\* C28: in every sequence of schedule, schedule_with_progress, cancel and
\* reset calls on one scheduler, each progress(done, total) call of
\* schedule_with_progress has 1 <= done <= total (total = jobs.len()), the
\* done values of one call are pairwise distinct, and there is exactly one
\* callback per job whose processor has returned and been counted.
C28_ProgressWithinRange ==
    srun.with_progress
    => /\ \A k \in 1..Len(srun.progress) :
            1 <= srun.progress[k] /\ srun.progress[k] <= Len(sjobs)
       /\ \A k, l \in 1..Len(srun.progress) :
            k # l => srun.progress[k] # srun.progress[l]
       /\ Len(srun.progress) = Cardinality(CountedJobs)

\* C30: when compress_file handles an image of a modality that requires
\* lossless compression with a mode other than Lossless, then with
\* override_safety_checks the call is not rejected by the safety check and a
\* returned CompressionResult carries a "Safety check overridden" warning;
\* without it the call returns a Validation error and nothing was encoded.
C30_OverrideRecorded ==
    (pc = "done" /\ dicom.open_ok /\ requires_lossless(modality)
        /\ config.mode # "Lossless")
    => IF config.override_safety_checks
       THEN /\ ~(pipeline.result.tag = "Err" /\ pipeline.result.class = "Validation")
            /\ pipeline.result.tag = "Ok"
                => \E i \in 1..Len(warnings) : warnings[i] = "Safety check overridden"
       ELSE /\ pipeline.result.tag = "Err"
            /\ pipeline.result.class = "Validation"
            /\ enc_result = NoResult

\* C29: in a batch run that reports through a ChannelProgress, a
\* terminal-phase event (Complete or Failed) is only ever the last event
\* sent, and it is sent by the end of the run; when collect_until_complete
\* has returned on a terminal event, every file is done and on_complete has
\* been reported.
C29_TerminalEventIsLast ==
    /\ \A k \in 1..Len(channel) :
        ProgressPhase_is_terminal(channel[k].phase)
            => k = Len(channel) /\ batch.pc = "returned"
    /\ (receiver.returned /\ receiver.taken > 0
            /\ ProgressPhase_is_terminal(channel[receiver.taken].phase))
        => /\ batch.pc = "returned"
           /\ \A i \in 1..Len(batch.files) : batch.files[i].st = "done"
           /\ Len(channel) > 0
           /\ channel[Len(channel)] = ProgressEvent("Complete", 0)

====
